---------------------------- MODULE Spec2Model ----------------------------
(***************************************************************************)
(* Model of the NIfTI extension decoder and builder of src/extension.rs:   *)
(* Extender::has_extensions, Extension::new, Extension::from_str,          *)
(* ExtensionSequence::from_reader and ExtensionSequence::bytes_on_disk.    *)
(*                                                                         *)
(* Integer widths.  TLC's integers are 32 bits wide, so the value 2^64 of  *)
(* the usize of a 64-bit target cannot be written.  The model keeps the    *)
(* shape of the widths and scales the byte: a byte has ByteBits bits, an   *)
(* i32 has I32Bytes = 4 bytes, a usize has UsizeBytes = 8 bytes (64-bit    *)
(* target) and isize::MAX is half the usize range.  Every cast, wrap and   *)
(* saturation of the code is computed on these widths.                     *)
(*                                                                         *)
(* The byte source is a finite byte sequence (a slice, a file): a read     *)
(* delivers the bytes that are there and fails only at the end of the      *)
(* source.  Infallible allocations succeed; the outcome of the fallible    *)
(* try_reserve_exact is an input of the environment (allocLimit).          *)
(***************************************************************************)
EXTENDS Integers, Sequences, FiniteSets, TLC

\* ------------------------------------------------------------- widths
ByteBits == 2
I32Bytes == 4
UsizeBytes == 8
HeaderSize == 8
Align == 16

ByteBase == 2 ^ ByteBits
I32Mod == ByteBase ^ I32Bytes
I32Max == (I32Mod \div 2) - 1
I32Min == -(I32Mod \div 2)
UsizeMod == ByteBase ^ UsizeBytes
IsizeMax == (UsizeMod \div 2) - 1

\* ------------------------------------------------------------- bounds
MaxRecs == 2
MaxTextLen == 18
SmallHeap == 9

\* ------------------------------------------------- integer primitives
\* Two's complement wrap of an integer into the i32 range.
WrapI32(n) ==
    LET u == n % I32Mod
    IN  IF u > I32Max THEN u - I32Mod ELSE u

\* `x as usize` for an i32 x: sign extension to the usize width.
AsUsize(x) == x % UsizeMod

\* `n as i32` for a usize n: truncation to the low 32 bits.
UsizeAsI32(n) == WrapI32(n)

\* usize::saturating_sub
SaturatingSub(a, b) == IF a >= b THEN a - b ELSE 0

\* i32::max
MaxI32(a, b) == IF a >= b THEN a ELSE b

\* `x & !15` on an i32: clears the low four bits (rounds down to a multiple
\* of 16, also for negative x in two's complement).
AndNot15(x) == x - (x % Align)

\* --------------------------------------------------------- byte order
RECURSIVE Pow(_, _)
Pow(b, k) == IF k = 0 THEN 1 ELSE b * Pow(b, k - 1)

\* Place value of byte i (1-based, in stream order) of a 4-byte field.
PlaceLittle(i) == Pow(ByteBase, i - 1)
PlaceBig(i) == Pow(ByteBase, I32Bytes - i)

Place(endian, i) == IF endian = "Little" THEN PlaceLittle(i) ELSE PlaceBig(i)

RECURSIVE SumPlaces(_, _, _)
SumPlaces(b, endian, i) ==
    IF i = 0 THEN 0 ELSE b[i] * Place(endian, i) + SumPlaces(b, endian, i - 1)

\* Faulty variant: the byte order of the source is ignored.
DecodeI32LittleOnly(b, endian) == WrapI32(SumPlaces(b, "Little", I32Bytes))

\* ByteOrdered::read_i32 on the four bytes b, in the byte order E.
DecodeI32(b, endian) == WrapI32(SumPlaces(b, endian, I32Bytes))

\* The wire layout of an i32 (the bytes read_i32 reads back): used to lay
\* out the input streams.
EncodeI32(v, endian) ==
    [i \in 1 .. I32Bytes |-> ((v % I32Mod) \div Place(endian, i)) % ByteBase]

\* ------------------------------------------------------------ extender
\* Faulty variant: any byte of the extender counts.
HasExtensionsAnyByte(ext) == \E i \in 1 .. 4 : ext[i] # 0

\* Extender::has_extensions
HasExtensions(ext) == ext[1] # 0

\* ----------------------------------------------------------- extension
Panic == [kind |-> "panic"]

\* Extension::new: the record, or a panic when esize is not 8 + the length
\* of the data.
ExtensionNew(esize, ecode, edata) ==
    IF AsUsize(esize) # HeaderSize + Len(edata)
    THEN Panic
    ELSE [kind |-> "Ext", esize |-> esize, ecode |-> ecode, edata |-> edata]

RECURSIVE Zeros(_)
Zeros(n) == IF n <= 0 THEN <<>> ELSE <<0>> \o Zeros(n - 1)

\* Vec::resize(new_len, 0)
Resize(v, n) == IF n <= Len(v) THEN SubSeq(v, 1, n) ELSE v \o Zeros(n - Len(v))

\* Faulty variant: rounds down instead of up.
PadDown(esize) == AndNot15(esize)

\* `(esize + 15) & !15` with a wrapping sum (from_str checks the overflow).
PadUp(esize) == AndNot15(WrapI32(esize + 15))

\* Extension::from_str.  overflow_checks is the build profile: with it an
\* i32 or usize overflow panics, without it the value wraps.
FromStrResult(code, str, overflow_checks) ==
    LET n == UsizeAsI32(Len(str))
        esize == HeaderSize + n
        padded == PadUp(WrapI32(esize))
        new_len == AsUsize(padded) - HeaderSize
    IN  IF overflow_checks /\ (esize > I32Max \/ WrapI32(esize) + 15 > I32Max)
        THEN Panic
        ELSE IF new_len < 0
        THEN Panic      \* usize underflow: panic, or a wrap to a length
                        \* above isize::MAX, on which resize panics
        ELSE IF new_len > IsizeMax
        THEN Panic      \* resize: capacity overflow
        ELSE ExtensionNew(padded, code, Resize(str, new_len))

\* Payload with its trailing zero padding stripped.
RECURSIVE StripZeros(_)
StripZeros(v) ==
    IF Len(v) > 0 /\ v[Len(v)] = 0 THEN StripZeros(SubSeq(v, 1, Len(v) - 1)) ELSE v

\* ------------------------------------------------------- input streams
\* A record as laid out in a stream: the two header fields and the payload
\* bytes that follow them (which may be fewer than the header declares).
PayloadByte(i) == 1 + (i % (ByteBase - 1))

Payload(n) == [i \in 1 .. n |-> PayloadByte(i)]

WireRec(e, c, n) == [esize |-> e, ecode |-> c, edata |-> Payload(n)]

\* Codes: a known one (comment) and one outside the enumeration.
ECodes == {6, I32Min + 3}

\* <<declared size, code, payload bytes present>>: negative sizes, sizes
\* below the header size, full records, and records cut short; codes of the
\* enumeration and others.
WireShapes ==
    { <<I32Min, 6, 0>>, <<0, 0, 0>>, <<4, 4, 0>>, <<8, -1, 0>>,
      <<10, I32Min + 3, 2>>, <<16, 6, 8>>, <<32, I32Max, 24>>,
      <<32, 6, 10>>, <<I32Max, 14, 10>> }

WireRecs == { WireRec(s[1], s[2], s[3]) : s \in WireShapes }

RECURSIVE SeqsUpTo(_, _)
SeqsUpTo(S, n) ==
    IF n = 0 THEN { <<>> }
    ELSE LET shorter == SeqsUpTo(S, n - 1)
         IN  shorter \cup { Append(w, r) : w \in { x \in shorter : Len(x) = n - 1 }, r \in S }

Wires == SeqsUpTo(WireRecs, MaxRecs)

RECURSIVE Layout(_, _)
Layout(w, endian) ==
    IF w = <<>> THEN <<>>
    ELSE EncodeI32(Head(w).esize, endian) \o EncodeI32(Head(w).ecode, endian)
         \o Head(w).edata \o Layout(Tail(w), endian)

RECURSIVE DeclaredSum(_)
DeclaredSum(w) ==
    IF w = <<>> THEN 0 ELSE MaxI32(Head(w).esize, 0) + DeclaredSum(Tail(w))

\* Bytes after the last record: none, or the start of a header.
Tails == { <<>>, <<1, 0, 0>> }

\* Byte budgets around the declared total: short, exact, generous.
Lens(w) == { MaxI32(DeclaredSum(w) - 6, 0), DeclaredSum(w), DeclaredSum(w) + 8 }

\* First byte zero (another byte set) and first byte set.
Extenders == { <<0, 1, 0, 0>>, <<1, 0, 0, 0>> }

Endians == { "Little", "Big" }

Texts ==
    { Payload(n) \o z : n \in (0 .. MaxTextLen) \cup {I32Max - 23, I32Max - 22, I32Max - 7},
                        z \in { <<>>, <<0>>, <<0, 0>>, <<0, 1>> } }

\* --------------------------------------------------------------- state
VARIABLES
    op,           \* the call made: "from_reader" or "from_str"
    extender,     \* from_reader: the extender argument
    source,       \* from_reader: the bytes of the source, from its position at the call
    endian,       \* from_reader: the byte order E of the source
    len,          \* from_reader: the byte budget
    allocLimit,   \* the largest reservation the allocator satisfies
    wire,         \* the records the source was laid out from
    pos,          \* bytes consumed from the source
    pc,           \* "start", "loop", "exit", "done"
    offset,       \* from_reader: local offset
    header_read,  \* an iteration has read both header fields
    esize,        \* from_reader: local esize of the last header read
    ecode,        \* from_reader: local ecode of the last header read
    data_size,    \* from_reader: local data_size of the last header read
    extensions,   \* from_reader: local extensions
    text,         \* from_str: the edata argument (its bytes)
    code,         \* from_str: the ecode argument
    result        \* what the call returned

vars == << op, extender, source, endian, len, allocLimit, wire, pos, pc, offset,
           header_read, esize, ecode, data_size, extensions, text, code, result >>

NoResult == [kind |-> "none"]

InitLocals ==
    /\ pos = 0
    /\ pc = "start"
    /\ offset = 0
    /\ header_read = FALSE
    /\ esize = 0
    /\ ecode = 0
    /\ data_size = 0
    /\ extensions = <<>>
    /\ result = NoResult

InitFromReader ==
    /\ op = "from_reader"
    /\ extender \in Extenders
    /\ endian \in Endians
    /\ wire \in Wires
    /\ \E t \in Tails : source = Layout(wire, endian) \o t
    /\ len \in Lens(wire)
    /\ allocLimit \in {SmallHeap, IsizeMax}
    /\ text = <<>>
    /\ code = 0
    /\ InitLocals

InitFromStr ==
    /\ op = "from_str"
    /\ text \in Texts
    /\ code \in ECodes
    /\ extender = <<0, 0, 0, 0>>
    /\ endian = "Little"
    /\ wire = <<>>
    /\ source = <<>>
    /\ len = 0
    /\ allocLimit = IsizeMax
    /\ InitLocals

Init == InitFromReader \/ InitFromStr

\* ------------------------------------------------------- from_reader
IoError == [kind |-> "Io"]

\* NiftiError::ReserveExtended(data_size, e)
ReserveExtended(size) == [kind |-> "ReserveExtended", size |-> size]

\* Faulty variant: the two counts exchanged.
IncompatibleLengthSwapped(read, expected) ==
    [kind |-> "IncompatibleLength", read |-> expected, expected |-> read]

\* NiftiError::IncompatibleLength(nb_bytes_written, data_size)
IncompatibleLength(read, expected) ==
    [kind |-> "IncompatibleLength", read |-> read, expected |-> expected]

Ok(ext, exts) == [kind |-> "Ok", extender |-> ext, extensions |-> exts]

\* (esize as usize).saturating_sub(8)
DataSize(e) == SaturatingSub(AsUsize(e), HeaderSize)

\* Faulty variant: an infallible reservation.
TryReserveAlways(n, limit) == TRUE

\* Vec::try_reserve_exact(n) on an empty vector: fails above isize::MAX
\* (capacity overflow) and when the allocator cannot satisfy the request.
TryReserveExact(n, limit) == n <= IsizeMax /\ n <= limit

\* Faulty variant: the raw esize is handed to Extension::new.
StoredSizeRaw(e) == e

\* i32::max(esize, 8), the size from_reader gives Extension::new
StoredSize(e) == MaxI32(e, HeaderSize)

\* Faulty variant: only one field is consumed.
HeaderEndShort(p) == p + I32Bytes

\* Position of the source after the two read_i32 calls of one iteration.
HeaderEnd(p) == p + I32Bytes + I32Bytes

\* offset += esize as usize (wrapping, as without overflow checks; the sum
\* stays below the usize range in every reachable state)
Advance(off, e) == (off + AsUsize(e)) % UsizeMod

\* Where a read_exact that meets the end of the source may leave it: after
\* the fields it read whole, or at the end.
EofPositions(p) ==
    { IF Len(source) - p >= I32Bytes THEN p + I32Bytes ELSE p, Len(source) }

\* Lines 184-186: the empty list and the test of the extender.
Enter ==
    /\ op = "from_reader"
    /\ pc = "start"
    /\ pc' = IF HasExtensions(extender) THEN "loop" ELSE "exit"
    /\ offset' = 0
    /\ extensions' = <<>>
    /\ UNCHANGED << op, extender, source, endian, len, allocLimit, wire, pos,
                    header_read, esize, ecode, data_size, text, code, result >>

\* Lines 187-206: one iteration of the loop.
Iterate ==
    /\ op = "from_reader"
    /\ pc = "loop"
    /\ offset < len
    /\ UNCHANGED << op, extender, source, endian, len, allocLimit, wire, text, code >>
    /\ IF Len(source) - pos < 2 * I32Bytes
       THEN \* a read_i32 fails with UnexpectedEof
            /\ pos' \in EofPositions(pos)
            /\ result' = IoError
            /\ pc' = "done"
            /\ UNCHANGED << offset, header_read, esize, ecode, data_size, extensions >>
       ELSE LET e == DecodeI32(SubSeq(source, pos + 1, pos + I32Bytes), endian)
                c == DecodeI32(SubSeq(source, pos + I32Bytes + 1, pos + 2 * I32Bytes), endian)
                hdr == HeaderEnd(pos)
                ds == DataSize(e)
                avail == Len(source) - hdr
                nb == IF ds <= avail THEN ds ELSE avail
                edata == SubSeq(source, hdr + 1, hdr + nb)
                ext == ExtensionNew(StoredSize(e), c, edata)
            IN  /\ header_read' = TRUE
                /\ esize' = e
                /\ ecode' = c
                /\ data_size' = ds
                /\ IF ~TryReserveExact(ds, allocLimit)
                   THEN /\ pos' = hdr
                        /\ result' = ReserveExtended(ds)
                        /\ pc' = "done"
                        /\ UNCHANGED << offset, extensions >>
                   ELSE IF nb # ds
                   THEN /\ pos' = hdr + nb
                        /\ result' = IncompatibleLength(nb, ds)
                        /\ pc' = "done"
                        /\ UNCHANGED << offset, extensions >>
                   ELSE IF ext = Panic
                   THEN /\ pos' = hdr + nb
                        /\ result' = Panic
                        /\ pc' = "done"
                        /\ UNCHANGED << offset, extensions >>
                   ELSE /\ pos' = hdr + nb
                        /\ extensions' = Append(extensions, ext)
                        /\ offset' = Advance(offset, e)
                        /\ UNCHANGED << pc, result >>

\* Lines 209-212: the loop is over (or was never entered).
Return ==
    /\ op = "from_reader"
    /\ \/ pc = "exit"
       \/ pc = "loop" /\ ~(offset < len)
    /\ result' = Ok(extender, extensions)
    /\ pc' = "done"
    /\ UNCHANGED << op, extender, source, endian, len, allocLimit, wire, pos, offset,
                    header_read, esize, ecode, data_size, extensions, text, code >>

\* Lines 109-116: Extension::from_str(code, text).
FromStr ==
    /\ op = "from_str"
    /\ pc = "start"
    /\ \E overflow_checks \in BOOLEAN : result' = FromStrResult(code, text, overflow_checks)
    /\ pc' = "done"
    /\ UNCHANGED << op, extender, source, endian, len, allocLimit, wire, pos, offset,
                    header_read, esize, ecode, data_size, extensions, text, code >>

Next == Enter \/ Iterate \/ Return \/ FromStr

Spec == Init /\ [][Next]_vars

\* The call is sequential code running to completion.
FairSpec == Spec /\ WF_vars(Next)

\* ------------------------------------------------------ derived values
RECURSIVE SumSizes(_)
\* ExtensionSequence::bytes_on_disk: the sum of `size() as usize`.
SumSizes(exts) ==
    IF exts = <<>> THEN 0 ELSE AsUsize(Head(exts).esize) + SumSizes(Tail(exts))

BytesOnDisk(r) == SumSizes(r.extensions) % UsizeMod

RECURSIVE Consumed(_)
\* Bytes of the source taken by the records decoded so far: a header and a
\* payload each.
Consumed(exts) ==
    IF exts = <<>> THEN 0 ELSE HeaderSize + Len(Head(exts).edata) + Consumed(Tail(exts))

IsReader == op = "from_reader"

Returned == pc = "done"

\* An iteration is about to read a whole header.
ReadsHeader == IsReader /\ pc = "loop" /\ offset < len /\ Len(source) - pos >= HeaderSize

\* ---------------------------------------------------------------- C1
\* The stream is well formed: extensions are signalled, every record
\* declares at least 8 bytes and has its whole payload, and the declared
\* sizes sum to len.
WellFormed ==
    /\ IsReader
    /\ HasExtensions(extender)
    /\ \A i \in 1 .. Len(wire) :
          /\ wire[i].esize >= HeaderSize
          /\ Len(wire[i].edata) = wire[i].esize - HeaderSize
    /\ DeclaredSum(wire) = len

Reservable == \A i \in 1 .. Len(wire) : wire[i].esize - HeaderSize <= allocLimit

AsWritten(w) ==
    [i \in 1 .. Len(w) |->
        [kind |-> "Ext", esize |-> w[i].esize, ecode |-> w[i].ecode, edata |-> w[i].edata]]

ExactDecode ==
    /\ result = Ok(extender, AsWritten(wire))
    /\ offset = len
    /\ pos = len

\* C1 as stated: on a well-formed stream from_reader returns one record per
\* wire record, in order, with the declared size, the wire code and the
\* payload, and ends with offset = len after consuming exactly len bytes.
C1_WellFormedDecodesExactly == (Returned /\ WellFormed) => ExactDecode

\* C1 as amended: the same, provided the allocator can reserve every
\* record's payload length.
C1_WellFormedReservableDecodesExactly ==
    (Returned /\ WellFormed /\ Reservable) => ExactDecode

C1_Witness ==
    /\ Returned /\ WellFormed /\ Reservable
    /\ Len(wire) = 2
    /\ wire[1].ecode = I32Min + 3
    /\ wire[2].esize = 32
    /\ endian = "Big"
    /\ result.kind = "Ok"

\* ---------------------------------------------------------------- C2
\* C2: when the extender's first byte is 0, from_reader consumes no byte of
\* the source and returns the empty sequence, whatever len and the stream.
C2_NoExtensionsNothingRead ==
    (IsReader /\ extender[1] = 0) =>
        /\ pos = 0
        /\ Returned => result = Ok(extender, <<>>)

C2_Witness ==
    /\ IsReader /\ Returned
    /\ extender = <<0, 1, 0, 0>>
    /\ len > 0
    /\ Len(wire) = 2
    /\ result = Ok(extender, <<>>)

\* ---------------------------------------------------------------- C3
\* C3: whenever from_reader returns a sequence, the sum of the stored sizes
\* of its records (bytes_on_disk) equals the offset the loop ended with.
C3_SumOfSizesIsOffset ==
    (IsReader /\ Returned /\ result.kind = "Ok") => BytesOnDisk(result) = offset

\* ---------------------------------------------------------------- C4
\* C4: whenever from_reader returns a sequence, the offset the loop ended
\* with does not exceed len.
C4_OffsetWithinLen ==
    (IsReader /\ Returned /\ result.kind = "Ok") => offset <= len

\* ---------------------------------------------------------------- C5
\* The header the iteration reads declares s >= 8 and fewer than s - 8
\* bytes follow it in the source.
Truncated ==
    /\ esize' >= HeaderSize
    /\ Len(source) - (pos + HeaderSize) < esize' - HeaderSize

TruncationReported ==
    /\ pc' = "done"
    /\ result' = [kind |-> "IncompatibleLength",
                  read |-> Len(source) - (pos + HeaderSize),
                  expected |-> esize' - HeaderSize]

\* C5 as stated: a record declaring s >= 8 with only k < s - 8 bytes after
\* its header makes from_reader fail with IncompatibleLength(k, s - 8).
C5_TruncationIsLengthMismatch ==
    [][(ReadsHeader /\ Truncated) => TruncationReported]_vars

\* C5 as amended: the same, provided the allocator can reserve s - 8 bytes
\* (otherwise the reservation error comes first).
C5_ReservableTruncationIsLengthMismatch ==
    [][(ReadsHeader /\ Truncated /\ esize' - HeaderSize <= allocLimit)
          => TruncationReported]_vars

C5_Witness ==
    /\ Returned
    /\ result = [kind |-> "IncompatibleLength", read |-> 10, expected |-> 24]
    /\ Len(extensions) = 1

\* ---------------------------------------------------------------- C6
\* C6: when the payload length of the header read cannot be reserved, the
\* call ends with ReserveExtended carrying that length, and the source is
\* just past the header: no payload byte of the record was read.
C6_ReserveFailureReported ==
    (IsReader /\ header_read /\ (data_size > allocLimit \/ data_size > IsizeMax)) =>
        /\ Returned
        /\ result = [kind |-> "ReserveExtended", size |-> data_size]
        /\ pos = Consumed(extensions) + HeaderSize

C6_Witness ==
    /\ Returned
    /\ result.kind = "ReserveExtended"
    /\ esize = I32Max
    /\ allocLimit = SmallHeap
    /\ Len(source) - pos > 0
    /\ Len(extensions) = 1

\* ---------------------------------------------------------------- C7
InI32Range == Len(text) + 23 <= I32Max

FromStrShape ==
    /\ result.kind = "Ext"
    /\ result.esize % Align = 0
    /\ result.esize >= HeaderSize + Len(text)
    /\ result.ecode = code

\* C7 as stated: from_str gives a record of the given code whose size is a
\* multiple of 16 and at least 8 + the text length, and whose payload
\* without its trailing zeros is the text.
C7_FromStrRoundTrip ==
    (op = "from_str" /\ Returned /\ InI32Range) =>
        /\ FromStrShape
        /\ StripZeros(result.edata) = text

\* C7 as amended: the payload is the text followed by zeros only, so the
\* stripped payload is the text without its own trailing zero bytes: the
\* text itself exactly when it does not end in a zero byte.
C7_FromStrRoundTripUpToZeros ==
    (op = "from_str" /\ Returned /\ InI32Range) =>
        /\ FromStrShape
        /\ SubSeq(result.edata, 1, Len(text)) = text
        /\ StripZeros(result.edata) = StripZeros(text)
        /\ (text = <<>> \/ text[Len(text)] # 0) => StripZeros(result.edata) = text

C7_Witness ==
    /\ op = "from_str" /\ Returned
    /\ Len(text) = 9
    /\ text[Len(text)] # 0
    /\ result.kind = "Ext"
    /\ result.esize = 32
    /\ StripZeros(result.edata) = text

\* ---------------------------------------------------------------- C8
\* C8: the payload length computed for a header is max(declared size - 8, 0),
\* also for a negative declared size.
C8_PayloadLenIsClampedDifference ==
    (IsReader /\ header_read) => data_size = MaxI32(esize - HeaderSize, 0)

\* ---------------------------------------------------------------- C9
\* C9: from_reader never runs into the panic of Extension::new, and every
\* record it builds has size = 8 + payload length.
C9_NoPanicSizesConsistent ==
    IsReader =>
        /\ result # Panic
        /\ \A i \in 1 .. Len(extensions) :
              extensions[i].esize = HeaderSize + Len(extensions[i].edata)

C9_Witness ==
    /\ IsReader /\ Returned
    /\ result.kind = "Ok"
    /\ Len(result.extensions) = 2
    /\ wire[1].esize = 4
    /\ result.extensions[1].esize = HeaderSize

\* --------------------------------------------------------------- C10
\* C10: from_reader terminates, and every iteration that does not end the
\* call consumes at least 8 bytes of the source.
C10_Terminates ==
    /\ <>Returned
    /\ [][(IsReader /\ pc = "loop" /\ pc' = "loop") => pos' >= pos + HeaderSize]_vars

C10_Witness ==
    /\ IsReader /\ Returned
    /\ header_read
    /\ esize = 0
    /\ Len(extensions) = 2
    /\ offset = 0

=============================================================================
